---- MODULE Spec2Model ----
(***************************************************************************)
(* A model of iss_tracker.py: the process-wide list iss_data, the Flask     *)
(* route handlers that read it, and the two handlers that replace it.       *)
(*                                                                          *)
(* Strings that the code slices or parses (epochs, query parameters) are    *)
(* sequences of one-character strings.  Floating point values are integer   *)
(* samples: positions in km, velocities in m/s, angles in quarter-degrees   *)
(* (one minute of time is 15/60 degree, exactly one quarter-degree).        *)
(***************************************************************************)
EXTENDS Integers, Sequences, FiniteSets, TLC

VARIABLES iss_data, cleared, last, workers

vars == <<iss_data, cleared, last, workers>>

(***************************************************************************)
(* Bounds of the model.                                                     *)
(***************************************************************************)
\* longest list of state vectors the upstream feed delivers
MaxLen == 2
\* largest advance of time.time() between two consecutive readings, seconds
MaxTick == 1

(***************************************************************************)
(* Python built-ins on strings and numbers.                                 *)
(***************************************************************************)
Digits == {"0", "1", "2", "3", "4", "5", "6", "7", "8", "9"}

DigitVal(c) ==
    CASE c = "0" -> 0 [] c = "1" -> 1 [] c = "2" -> 2 [] c = "3" -> 3
      [] c = "4" -> 4 [] c = "5" -> 5 [] c = "6" -> 6 [] c = "7" -> 7
      [] c = "8" -> 8 [] c = "9" -> 9

Abs(n) == IF n < 0 THEN -n ELSE n

Min(a, b) == IF a < b THEN a ELSE b

Max(a, b) == IF a < b THEN b ELSE a

\* s[a:b] for 0 <= a <= b: out-of-range bounds are clamped, never an error
Slice(s, a, b) == SubSeq(s, Min(a, Len(s)) + 1, Min(b, Len(s)))

\* s[:-n] for n > 0
DropLast(s, n) == SubSeq(s, 1, Max(Len(s) - n, 0))

AllDigits(s) == \A i \in 1..Len(s) : s[i] \in Digits

RECURSIVE DigitsVal(_)
DigitsVal(s) ==
    IF s = <<>> THEN 0
    ELSE 10 * DigitsVal(SubSeq(s, 1, Len(s) - 1)) + DigitVal(s[Len(s)])

RECURSIVE LStrip(_)
LStrip(s) == IF s # <<>> /\ s[1] = " " THEN LStrip(Tail(s)) ELSE s

RECURSIVE RStrip(_)
RStrip(s) ==
    IF s # <<>> /\ s[Len(s)] = " " THEN RStrip(SubSeq(s, 1, Len(s) - 1)) ELSE s

\* int(s): surrounding blanks are dropped, one optional sign, then one or
\* more decimal digits; anything else raises ValueError (ok = FALSE)
PyInt(s) ==
    LET t == RStrip(LStrip(s))
        signed == t # <<>> /\ t[1] \in {"-", "+"}
        d == IF signed THEN Tail(t) ELSE t
    IN  IF d # <<>> /\ AllDigits(d)
        THEN [ok |-> TRUE,
              val |-> IF signed /\ t[1] = "-" THEN -DigitsVal(d) ELSE DigitsVal(d)]
        ELSE [ok |-> FALSE, val |-> 0]

\* bool(s) of a string: the empty string is falsy
Truthy(s) == s # <<>>

\* floor of math.sqrt on a non-negative integer (exact on perfect squares)
RECURSIVE SqrtBetween(_, _, _)
SqrtBetween(n, lo, hi) ==
    IF hi - lo <= 1 THEN lo
    ELSE LET mid == (lo + hi) \div 2
         IN  IF mid * mid <= n THEN SqrtBetween(n, mid, hi)
             ELSE SqrtBetween(n, lo, mid)

Sqrt(n) == SqrtBetween(n, 0, 46341)

\* math.degrees(math.atan2(y, x)) in quarter-degrees, on the arguments where
\* the angle is a whole number of them: on an axis or on a diagonal
Atan2Q(y, x) ==
    CASE y = 0 /\ x >= 0 -> 0
      [] y = 0 /\ x < 0 -> 720
      [] x = 0 /\ y > 0 -> 360
      [] x = 0 /\ y < 0 -> -360
      [] x > 0 /\ y = x -> 180
      [] x > 0 /\ y = -x -> -180
      [] x < 0 /\ y = -x -> 540
      [] x < 0 /\ y = x -> -540

(***************************************************************************)
(* time.strptime(s, '%Y-%jT%H:%M:%S') followed by time.mktime, for the      *)
(* fixed-width layout YYYY-DDDTHH:MM:SS.  ok = FALSE is ValueError.  The    *)
(* local time zone is taken to be UTC.                                      *)
(***************************************************************************)
StrpTime(s) ==
    LET y == Slice(s, 0, 4)
        j == Slice(s, 5, 8)
        h == Slice(s, 9, 11)
        m == Slice(s, 12, 14)
        sec == Slice(s, 15, 17)
        shape == /\ Len(s) = 17
                 /\ s[5] = "-" /\ s[9] = "T" /\ s[12] = ":" /\ s[15] = ":"
                 /\ AllDigits(y) /\ AllDigits(j) /\ AllDigits(h)
                 /\ AllDigits(m) /\ AllDigits(sec)
    IN  IF /\ shape
           /\ DigitsVal(y) >= 1970
           /\ DigitsVal(j) \in 1..366
           /\ DigitsVal(h) \in 0..23
           /\ DigitsVal(m) \in 0..59
           /\ DigitsVal(sec) \in 0..61
        THEN [ok |-> TRUE,
              year |-> DigitsVal(y), yday |-> DigitsVal(j), hour |-> DigitsVal(h),
              min |-> DigitsVal(m), sec |-> DigitsVal(sec)]
        ELSE [ok |-> FALSE, year |-> 0, yday |-> 0, hour |-> 0, min |-> 0, sec |-> 0]

MkTime(t) ==
    LET days == (t.year - 1970) * 365 + ((t.year - 1969) \div 4) + (t.yday - 1)
    IN  days * 86400 + t.hour * 3600 + t.min * 60 + t.sec

(***************************************************************************)
(* State vectors as xmltodict delivers them.  EPOCH is a plain string; each *)
(* of the six other fields carries a units attribute, so it is parsed into  *)
(* a mapping {'@units', '#text'} (dict = TRUE) until get_state_vectors      *)
(* replaces it by float(text) (dict = FALSE).                               *)
(***************************************************************************)
Field(v) == [dict |-> TRUE, val |-> v]

StateVector(epoch, x, y, z, xd, yd, zd) ==
    [EPOCH |-> epoch, X |-> Field(x), Y |-> Field(y), Z |-> Field(z),
     X_DOT |-> Field(xd), Y_DOT |-> Field(yd), Z_DOT |-> Field(zd)]

\* the epoch layout YYYY-DDDTHH:MM:SS.sssZ, from its day, hour and minute
EpochStr(j, h, m) ==
    <<"2", "0", "2", "3", "-">> \o j \o <<"T">> \o h \o <<":">> \o m
        \o <<":", "0", "0", ".", "0", "0", "0", "Z">>

EpochA == EpochStr(<<"0", "5", "8">>, <<"1", "2">>, <<"0", "0">>)

EpochB == EpochStr(<<"0", "5", "8">>, <<"1", "2">>, <<"0", "4">>)

\* an epoch no record of the feed carries
EpochNone == EpochStr(<<"0", "5", "9">>, <<"0", "0">>, <<"0", "0">>)

\* the records the upstream feed is built from; the third repeats an epoch
FeedRecords ==
    { StateVector(EpochA, 6800, 0, 0, 0, 7500, 0),
      StateVector(EpochB, 0, 6800, 0, -7500, 0, 0),
      StateVector(EpochA, 0, 0, 6800, 4500, 6000, 0) }

RECURSIVE SeqsOfLen(_, _)
SeqsOfLen(S, n) ==
    IF n = 0 THEN {<<>>}
    ELSE {Append(s, x) : s \in SeqsOfLen(S, n - 1), x \in S}

(***************************************************************************)
(* Values of the global iss_data.  A list of state vectors (tag "list"), or *)
(* a mapping (tag "dict") with `keys` keys: the whole parsed document (one  *)
(* key, its root element; `path` and `recs` say what lies under its         *)
(* state-vector path), or the single state vector that xmltodict hands back *)
(* unwrapped when the feed holds exactly one (seven keys).                  *)
(***************************************************************************)
ListStore(recs) == [tag |-> "list", recs |-> recs, keys |-> 0, path |-> ""]

\* a single state vector, a mapping of EPOCH and six fields
SingleVector == [tag |-> "dict", recs |-> <<>>, keys |-> 7, path |-> ""]

\* iss_data = []
EmptyStore == ListStore(<<>>)

IsList(d) == d.tag = "list"

\* len(iss_data)
PyLen(d) == IF d.tag = "list" THEN Len(d.recs) ELSE d.keys

(***************************************************************************)
(* What one upstream fetch can deliver: requests.get raises, the text does  *)
(* not parse, the document lacks the state-vector path, it holds a single   *)
(* state vector, or it holds a list of them.                                *)
(***************************************************************************)
Upstream ==
    {[out |-> o, recs |-> <<>>] : o \in {"fetch_raises", "unparseable", "no_path", "single"}}
        \cup {[out |-> "ok", recs |-> s] :
                s \in UNION {SeqsOfLen(FeedRecords, n) : n \in 2..MaxLen}}

\* what xmltodict.parse(response.text) returns: a mapping with the root key
ParsedDocument(u) == [tag |-> "dict", recs |-> u.recs, keys |-> 1, path |-> u.out]

\* d is a parsed document that holds state vectors
HasPath(d) == d.tag = "dict" /\ d.path \in {"ok", "single"}

\* d['ndm']['oem']['body']['segment']['data']['stateVector'] where it exists
StateVectorPath(d) == IF d.path = "single" THEN SingleVector ELSE ListStore(d.recs)

(***************************************************************************)
(* Results of a handler: tag "list" (val the list), "dict" (val <<>> for {} *)
(* and <<r>> for the mapping r), "str" (val <<message>>) or "raise" (val    *)
(* <<exception>>).                                                          *)
(***************************************************************************)
RList(l) == [tag |-> "list", val |-> l]

RDict(r) == [tag |-> "dict", val |-> <<r>>]

REmpty == [tag |-> "dict", val |-> <<>>]

RStr(m) == [tag |-> "str", val |-> <<m>>]

Raise(e) == [tag |-> "raise", val |-> <<e>>]

\* the handler ended by raising e
Raised(res, e) == res.tag = "raise" /\ res.val[1] = e

\* index(): the global itself
Index(d) == IF d.tag = "list" THEN RList(d.recs) ELSE RDict([keys |-> d.keys, path |-> d.path, recs |-> d.recs])

(***************************************************************************)
(* get_epochs.  A query parameter is absent (given = FALSE) or a string.    *)
(***************************************************************************)
Absent == [given |-> FALSE, s |-> <<>>]

Given(s) == [given |-> TRUE, s |-> s]

\* str(n) for 0 <= n <= 99
PyStr(n) ==
    LET c(k) == CHOOSE ch \in Digits : DigitVal(ch) = k
    IN  IF n < 10 THEN <<c(n)>> ELSE <<c(n \div 10), c(n % 10)>>

\* request.args.get(name, default)
ArgsGet(arg, default) == IF arg.given THEN arg.s ELSE default

BadOffset == "Bad input: please specify a positive integer for offset\n"

BadLimit == "Bad input: please specify a positive integer for limit\n"

\* `if s: try: s = int(s) except ValueError: return message`: the variable
\* afterwards is an int (isInt), or still the empty string it was
ParseParam(s) ==
    IF Truthy(s)
    THEN [bad |-> ~PyInt(s).ok, isInt |-> TRUE, val |-> PyInt(s).val]
    ELSE [bad |-> FALSE, isInt |-> FALSE, val |-> 0]

\* line 60, for a limit that is an int: count == limit
LimitReached(count, limit) == count = limit

\* an off-by-one of line 62: index > offset
PastOffset(index, offset) == index > offset

\* line 62, for an offset that is an int: index >= offset
AtOrPastOffset(index, offset) == index >= offset

\* the loop of lines 59-65, about to take item i (1-based) of iss_data; an
\* empty-string limit never equals count, an empty-string offset cannot be
\* ordered against index, and an item of a mapping is a key, a string
RECURSIVE EpochsLoop(_, _, _, _, _, _)
EpochsLoop(d, offset, limit, i, count, epochs_list) ==
    IF i > PyLen(d) THEN RList(epochs_list)
    ELSE IF limit.isInt /\ LimitReached(count, limit.val) THEN RList(epochs_list)
    ELSE IF ~offset.isInt THEN Raise("TypeError")
    ELSE IF AtOrPastOffset(i - 1, offset.val)
         THEN IF d.tag = "dict" THEN Raise("TypeError")
              ELSE EpochsLoop(d, offset, limit, i + 1, count + 1,
                              Append(epochs_list, d.recs[i].EPOCH))
         ELSE EpochsLoop(d, offset, limit, i + 1, count, epochs_list)

\* lines 44-66; d1 is iss_data as line 45 reads it, d2 as line 59 reads it
GetEpochs(d1, d2, offsetArg, limitArg) ==
    LET offset == ParseParam(ArgsGet(offsetArg, PyStr(0)))
        limit == ParseParam(ArgsGet(limitArg, PyStr(PyLen(d1))))
    IN  IF offset.bad THEN RStr(BadOffset)
        ELSE IF limit.bad THEN RStr(BadLimit)
        ELSE EpochsLoop(d2, offset, limit, 1, 0, <<>>)

(***************************************************************************)
(* get_state_vectors.  The scan does not stop at a match, and it rewrites   *)
(* the matching records of the list in place.  The operators that can       *)
(* change the list return [data |-> the list afterwards, res |-> result].   *)
(***************************************************************************)
ToFloat(f) == [dict |-> FALSE, val |-> f.val]

\* lines 83-86 on one record
Normalise(r) ==
    [EPOCH |-> r.EPOCH,
     X |-> ToFloat(r.X), Y |-> ToFloat(r.Y), Z |-> ToFloat(r.Z),
     X_DOT |-> ToFloat(r.X_DOT), Y_DOT |-> ToFloat(r.Y_DOT),
     Z_DOT |-> ToFloat(r.Z_DOT)]

\* a scan that kept the first match, as a `break` after line 86 would
KeepFirstMatch(epoch_output, r) == IF epoch_output = <<>> THEN <<r>> ELSE epoch_output

\* line 82: a match replaces whatever an earlier match left in epoch_output
KeepMatch(epoch_output, r) == <<r>>

RECURSIVE SvScan(_, _, _, _)
SvScan(recs, epoch, i, epoch_output) ==
    IF i > Len(recs) THEN [recs |-> recs, out |-> epoch_output]
    ELSE IF recs[i].EPOCH = epoch
         THEN SvScan([recs EXCEPT ![i] = Normalise(recs[i])], epoch, i + 1,
                     KeepMatch(epoch_output, Normalise(recs[i])))
         ELSE SvScan(recs, epoch, i + 1, epoch_output)

GetStateVectors(d, epoch) ==
    IF d.tag = "dict"
    THEN [data |-> d, res |-> Raise("TypeError")]
    ELSE LET s == SvScan(d.recs, epoch, 1, <<>>)
         IN  [data |-> ListStore(s.recs),
              res |-> [tag |-> "dict", val |-> s.out]]

\* len(epoch_dat) != 0
Found(res) == res.val # <<>>

(***************************************************************************)
(* get_speed.                                                               *)
(***************************************************************************)
GetSpeed(d, epoch) ==
    LET sv == GetStateVectors(d, epoch)
    IN  IF sv.res.tag = "raise" THEN sv
        ELSE IF Found(sv.res)
        THEN LET r == sv.res.val[1]
             IN  [data |-> sv.data,
                  res |-> RDict([value |-> Sqrt(r.X_DOT.val * r.X_DOT.val
                                                + r.Y_DOT.val * r.Y_DOT.val
                                                + r.Z_DOT.val * r.Z_DOT.val),
                                 units |-> "km/s"])]
        ELSE [data |-> sv.data, res |-> REmpty]

(***************************************************************************)
(* get_location.  Angles are in quarter-degrees: 360 degrees are 1440, the  *)
(* fixed offset of 24 degrees is 96, an hour of rotation is 60 and a minute *)
(* is 1.  Altitude is in metres.                                            *)
(***************************************************************************)
MEAN_EARTH_RADIUS == 6378137

\* a wrap that lost its second branch (lines 131-132)
WrapDownOnly(longitude) ==
    IF longitude > 720 THEN longitude - 1440 ELSE longitude

\* lines 129-134: one conditional wrap by a full turn
WrapLongitude(longitude) ==
    IF longitude > 720 THEN longitude - 1440
    ELSE IF longitude < -720 THEN longitude + 1440
    ELSE longitude

\* line 128 and the wrap, from degrees(atan2(y, x)), hrs and mins
Longitude(raw, hrs, mins) == WrapLongitude(raw - ((hrs - 12) * 60 + mins) + 96)

NoGeoData == "No geolocation data available, ISS is over the ocean"

\* the three outcomes of geocoder.reverse: a place, None, or an exception
GeoOutcomes == {"place", "none", "raises"}

\* lines 137-141: nothing catches what geocoder.reverse raises
Geoposition(geo) ==
    IF geo = "raises" THEN Raise("GeocoderServiceError")
    ELSE IF geo = "none" THEN RStr(NoGeoData)
    ELSE RStr("address")

GetLocation(d, epoch, geo) ==
    LET sv == GetStateVectors(d, epoch)
    IN  IF sv.res.tag = "raise" THEN sv
        ELSE IF ~Found(sv.res) THEN [data |-> sv.data, res |-> REmpty]
        ELSE
          LET r == sv.res.val[1]
              hrs == PyInt(Slice(r.EPOCH, 9, 11))
              mins == PyInt(Slice(r.EPOCH, 12, 14))
              x == r.X.val
              y == r.Y.val
              z == r.Z.val
              place == Geoposition(geo)
          IN  IF ~hrs.ok \/ ~mins.ok
              THEN [data |-> sv.data, res |-> Raise("ValueError")]
              ELSE IF place.tag = "raise"
              THEN [data |-> sv.data, res |-> place]
              ELSE [data |-> sv.data,
                    res |-> RDict(
                      [LATITUDE |-> Atan2Q(z, Sqrt(x * x + y * y)),
                       LONGITUDE |-> Longitude(Atan2Q(y, x), hrs.val, mins.val),
                       ALTITUDE |-> [value |-> Sqrt(x * x + y * y + z * z) * 1000
                                                - MEAN_EARTH_RADIUS,
                                     units |-> "km"],
                       GEOPOSITION |-> place.val[1]])]

(***************************************************************************)
(* get_now.  time.time() is read once before the loop (t0) and once in      *)
(* every iteration; ticks[i] is how far the clock has moved on from t0 by   *)
(* iteration i.  The three parts below each read the global once (lines     *)
(* 158 and 159 read the same item and are taken together).                  *)
(***************************************************************************)
\* time.mktime(time.strptime(epoch[:-5], '%Y-%jT%H:%M:%S'))
EpochTime(epoch) ==
    LET t == StrpTime(DropLast(epoch, 5))
    IN  [ok |-> t.ok, secs |-> IF t.ok THEN MkTime(t) ELSE 0]

\* a get_now without the guard of lines 156-157
NowNeverEmpty(d) == FALSE

\* line 156
NowIsEmpty(d) == PyLen(d) = 0

\* lines 158-159, on a store that line 156 found non-empty
NowFirst(d, t0) ==
    IF d.tag = "dict" THEN [res |-> Raise("KeyError"), min_difference |-> 0]
    ELSE IF d.recs = <<>> THEN [res |-> Raise("IndexError"), min_difference |-> 0]
    ELSE IF ~EpochTime(d.recs[1].EPOCH).ok
         THEN [res |-> Raise("ValueError"), min_difference |-> 0]
    ELSE [res |-> REmpty, min_difference |-> t0 - EpochTime(d.recs[1].EPOCH).secs]

\* line 167
Closer(difference, min_difference) == Abs(difference) < Abs(min_difference)

\* lines 160-169; min_state_vector is <<>> while the name is unbound
RECURSIVE NowScan(_, _, _, _, _, _)
NowScan(recs, i, t0, ticks, min_difference, min_state_vector) ==
    IF i > Len(recs)
    THEN [res |-> REmpty, min_difference |-> min_difference,
          min_state_vector |-> min_state_vector]
    ELSE IF ~EpochTime(recs[i].EPOCH).ok
    THEN [res |-> Raise("ValueError"), min_difference |-> min_difference,
          min_state_vector |-> min_state_vector]
    ELSE LET difference == (t0 + ticks[i]) - EpochTime(recs[i].EPOCH).secs
         IN  IF Closer(difference, min_difference)
             THEN NowScan(recs, i + 1, t0, ticks, difference, <<recs[i]>>)
             ELSE NowScan(recs, i + 1, t0, ticks, min_difference, min_state_vector)

NowLoop(d, t0, ticks, min_difference) ==
    IF d.tag = "dict"
    THEN [res |-> Raise("TypeError"), min_difference |-> min_difference,
          min_state_vector |-> <<>>]
    ELSE NowScan(d.recs, 1, t0, ticks, min_difference, <<>>)

\* lines 170-174, after a loop that raised nothing
NowTail(d, scan, geo) ==
    IF scan.min_state_vector = <<>>
    THEN [data |-> d, res |-> Raise("UnboundLocalError")]
    ELSE LET epoch == scan.min_state_vector[1].EPOCH
             loc == GetLocation(d, epoch, geo)
             spd == GetSpeed(loc.data, epoch)
         IN  IF loc.res.tag = "raise" THEN loc
             ELSE IF spd.res.tag = "raise" THEN spd
             ELSE [data |-> spd.data,
                   res |-> RDict([closest_epoch |-> epoch,
                                  time_difference |-> scan.min_difference,
                                  location |-> loc.res.val,
                                  speed |-> spd.res.val])]

GetNow(d, t0, ticks, geo) ==
    IF NowIsEmpty(d) THEN [data |-> d, res |-> REmpty]
    ELSE LET first == NowFirst(d, t0)
             scan == NowLoop(d, t0, ticks, first.min_difference)
         IN  IF first.res.tag = "raise" THEN [data |-> d, res |-> first.res]
             ELSE IF scan.res.tag = "raise" THEN [data |-> d, res |-> scan.res]
             ELSE NowTail(d, scan, geo)

(***************************************************************************)
(* delete_data and post_data.                                               *)
(***************************************************************************)
Deleted == "ISS Data has been deleted\n"

Reloaded == "ISS Data has been reloaded\n"

\* line 218 raises, or xmltodict.parse raises in line 220 before the assignment
FetchFails(u) == u.out \in {"fetch_raises", "unparseable"}

FetchError(u) ==
    IF u.out = "fetch_raises" THEN Raise("ConnectionError") ELSE Raise("ExpatError")

\* line 222, on the value d of the global that line 222 reads
PostPath(d) ==
    IF d.tag = "list" THEN [data |-> d, res |-> Raise("TypeError")]
    ELSE IF ~HasPath(d) THEN [data |-> d, res |-> Raise("KeyError")]
    ELSE [data |-> StateVectorPath(d), res |-> RStr(Reloaded)]

\* lines 218-223: line 220 assigns the parsed document to the global, and
\* line 222 replaces it by what lies under the path
PostData(d, u) ==
    IF FetchFails(u) THEN [data |-> d, res |-> FetchError(u)]
    ELSE PostPath(ParsedDocument(u))

(***************************************************************************)
(* Inputs of the requests.                                                  *)
(***************************************************************************)
ParamChars == {"0", "1", "-", "a"}

Params ==
    {Absent} \cup {Given(s) : s \in UNION {SeqsOfLen(ParamChars, n) : n \in 0..2}}

EpochArgs == {EpochA, EpochB, EpochNone}

\* first readings of time.time(), around the epochs of the feed
Nows == {EpochTime(EpochA).secs + k : k \in {-60, 30, 119, 300}}

\* the clock never runs backwards and moves at most MaxTick between readings
RECURSIVE TickSeqs(_)
TickSeqs(n) ==
    IF n = 0 THEN {<<>>}
    ELSE {Append(t, (IF t = <<>> THEN 0 ELSE t[Len(t)]) + k) :
            t \in TickSeqs(n - 1), k \in 0..MaxTick}

NoUpstream == [out |-> "", recs |-> <<>>]

NoArg ==
    [epoch |-> <<>>, offset |-> Absent, limit |-> Absent, t0 |-> 0,
     ticks |-> <<>>, geo |-> "", up |-> NoUpstream]

\* no request is being served
NoRequest == [op |-> "none", pre |-> EmptyStore, arg |-> NoArg, res |-> REmpty]

\* a worker thread with no request: pc is the line it is about to run,
\* the other fields are the locals of the handler it runs
Idle ==
    [pc |-> "idle", op |-> "none", up |-> NoUpstream,
     offset |-> Absent, limit |-> Absent, len |-> 0,
     t0 |-> 0, min_difference |-> 0, epoch |-> <<>>, location |-> <<>>,
     mid |-> FALSE, res |-> REmpty]

Workers == {"w1", "w2"}

(***************************************************************************)
(* Spec: requests served one at a time, each handler from entry to return.  *)
(* `last` records the request being answered: the handler, the store it     *)
(* found, its inputs and its result, until `respond` sends the response.    *)
(* `cleared` is TRUE from a delete_data until the next post_data.           *)
(***************************************************************************)
Init ==
    /\ \E u \in Upstream :
         /\ ~FetchFails(u) /\ HasPath(ParsedDocument(u))
         /\ iss_data = StateVectorPath(ParsedDocument(u))
         /\ last = NoRequest
    /\ cleared = FALSE
    /\ workers = [w \in Workers |-> Idle]

index ==
    /\ last = NoRequest
    /\ last' = [op |-> "index", pre |-> iss_data, arg |-> NoArg,
                res |-> Index(iss_data)]
    /\ UNCHANGED <<iss_data, cleared, workers>>

get_epochs ==
    /\ last = NoRequest
    /\ \E o \in Params, l \in Params :
      /\ last' = [op |-> "get_epochs", pre |-> iss_data,
                  arg |-> [NoArg EXCEPT !.offset = o, !.limit = l],
                  res |-> GetEpochs(iss_data, iss_data, o, l)]
      /\ UNCHANGED <<iss_data, cleared, workers>>

get_state_vectors ==
    /\ last = NoRequest
    /\ \E e \in EpochArgs :
      LET r == GetStateVectors(iss_data, e)
      IN  /\ iss_data' = r.data
          /\ last' = [op |-> "get_state_vectors", pre |-> iss_data,
                      arg |-> [NoArg EXCEPT !.epoch = e], res |-> r.res]
          /\ UNCHANGED <<cleared, workers>>

get_speed ==
    /\ last = NoRequest
    /\ \E e \in EpochArgs :
      LET r == GetSpeed(iss_data, e)
      IN  /\ iss_data' = r.data
          /\ last' = [op |-> "get_speed", pre |-> iss_data,
                      arg |-> [NoArg EXCEPT !.epoch = e], res |-> r.res]
          /\ UNCHANGED <<cleared, workers>>

get_location ==
    /\ last = NoRequest
    /\ \E e \in EpochArgs, g \in GeoOutcomes :
      LET r == GetLocation(iss_data, e, g)
      IN  /\ iss_data' = r.data
          /\ last' = [op |-> "get_location", pre |-> iss_data,
                      arg |-> [NoArg EXCEPT !.epoch = e, !.geo = g], res |-> r.res]
          /\ UNCHANGED <<cleared, workers>>

get_now ==
    /\ last = NoRequest
    /\ \E t \in Nows, k \in TickSeqs(IF IsList(iss_data) THEN Len(iss_data.recs) ELSE 0), g \in GeoOutcomes :
      LET r == GetNow(iss_data, t, k, g)
      IN  /\ iss_data' = r.data
          /\ last' = [op |-> "get_now", pre |-> iss_data,
                      arg |-> [NoArg EXCEPT !.t0 = t, !.ticks = k, !.geo = g],
                      res |-> r.res]
          /\ UNCHANGED <<cleared, workers>>

delete_data ==
    /\ last = NoRequest
    /\ iss_data' = EmptyStore
    /\ cleared' = TRUE
    /\ last' = [op |-> "delete_data", pre |-> iss_data, arg |-> NoArg,
                res |-> RStr(Deleted)]
    /\ UNCHANGED workers

post_data ==
    /\ last = NoRequest
    /\ \E u \in Upstream :
      LET r == PostData(iss_data, u)
      IN  /\ iss_data' = r.data
          /\ cleared' = FALSE
          /\ last' = [op |-> "post_data", pre |-> iss_data,
                      arg |-> [NoArg EXCEPT !.up = u], res |-> r.res]
          /\ UNCHANGED workers

\* the response leaves the process; the next request can be taken
respond ==
    /\ last # NoRequest
    /\ last' = NoRequest
    /\ UNCHANGED <<iss_data, cleared, workers>>

Next ==
    \/ index
    \/ get_epochs
    \/ get_state_vectors
    \/ get_speed
    \/ get_location
    \/ get_now
    \/ delete_data
    \/ post_data
    \/ respond

Spec == Init /\ [][Next]_vars

(***************************************************************************)
(* Properties of the handlers, over Spec.                                   *)
(***************************************************************************)
\* the indexes of the records of a list that carry an epoch
Matches(recs, epoch) == {i \in 1..Len(recs) : recs[i].EPOCH = epoch}

SetMin(S) == CHOOSE x \in S : \A y \in S : x <= y

SetMax(S) == CHOOSE x \in S : \A y \in S : x >= y

\* what a query parameter stands for once the default is filled in
ParamText(arg, default) == ArgsGet(arg, default)

OffsetText == ParamText(last.arg.offset, PyStr(0))

LimitText == ParamText(last.arg.limit, PyStr(PyLen(last.pre)))

\* C1: for every non-empty store, get_now returns a non-empty result whose
\* closest_epoch is the epoch of a record of the store, and no record of the
\* store is strictly nearer to the reference time (any of the readings of
\* the clock the request took counts as the reference time); the reverse
\* geocoder is taken not to fail here.
C1_NowReturnsNearest ==
    (/\ last.op = "get_now"
     /\ IsList(last.pre) /\ last.pre.recs # <<>>
     /\ last.arg.geo # "raises")
    => /\ last.res.tag = "dict"
       /\ last.res.val # <<>>
       /\ \E i \in 1..Len(last.pre.recs) :
            /\ last.pre.recs[i].EPOCH = last.res.val[1].closest_epoch
            /\ \E k \in 0..(Len(last.pre.recs) * MaxTick) :
                 \A j \in 1..Len(last.pre.recs) :
                    Abs(last.arg.t0 + k - EpochTime(last.pre.recs[j].EPOCH).secs)
                      >= Abs(last.arg.t0 + k - EpochTime(last.pre.recs[i].EPOCH).secs)

\* C3: a post_data that fails at any of its steps leaves the store exactly
\* as it found it.
C3_FailedReloadKeepsStore ==
    (last.op = "post_data" /\ last.res.tag = "raise") => iss_data = last.pre

\* C4: whenever the supplied offset or the supplied limit is a string that
\* int() does not parse (the empty string included), get_epochs returns a
\* rejection message: never a list, never an exception.
C4_MalformedRejected ==
    (/\ last.op = "get_epochs"
     /\ \/ last.arg.offset.given /\ ~PyInt(last.arg.offset.s).ok
        \/ last.arg.limit.given /\ ~PyInt(last.arg.limit.s).ok)
    => /\ last.res.tag = "str"
       /\ last.res.val[1] \in {BadOffset, BadLimit}

\* get_epochs was served on a list of records with an integer offset and limit
EpochsAccepted ==
    /\ last.op = "get_epochs"
    /\ IsList(last.pre)
    /\ PyInt(OffsetText).ok
    /\ PyInt(LimitText).ok

\* the returned entries are the epochs of consecutive records, in store
\* order, the first of them at index offset (index 0 for a negative offset)
EpochsFromOffset ==
    LET start == Max(PyInt(OffsetText).val, 0)
    IN  /\ last.res.tag = "list"
        /\ start + Len(last.res.val) <= Max(start, Len(last.pre.recs))
        /\ \A i \in 1..Len(last.res.val) :
              last.res.val[i] = last.pre.recs[start + i].EPOCH
        /\ PyInt(OffsetText).val >= Len(last.pre.recs) => last.res.val = <<>>

\* C5 as stated: for every accepted integer offset and limit, negative ones
\* included, the list has at most limit entries, none from an index below
\* offset, in store order, and is empty for an offset at or past the end.
C5_AtMostLimitAlways ==
    EpochsAccepted
    => /\ EpochsFromOffset
       /\ Len(last.res.val) <= PyInt(LimitText).val

\* C5 amended: the same, with the bound on the number of entries only for a
\* limit that is not negative; a negative limit bounds nothing, and every
\* epoch from index offset on is returned.
C5_AtMostLimitWhenNonNegative ==
    EpochsAccepted
    => /\ EpochsFromOffset
       /\ PyInt(LimitText).val >= 0 => Len(last.res.val) <= PyInt(LimitText).val
       /\ PyInt(LimitText).val < 0 =>
             Len(last.res.val) =
                Max(Len(last.pre.recs) - Max(PyInt(OffsetText).val, 0), 0)

\* C5 witness: offset 1 and limit 1 on a longer list return its second epoch
C5_Witness ==
    /\ EpochsAccepted
    /\ PyInt(OffsetText).val = 1 /\ PyInt(LimitText).val = 1
    /\ Len(last.pre.recs) >= 2
    /\ last.res = RList(<<last.pre.recs[2].EPOCH>>)

\* get_location was served on a list that holds a record with the epoch
LocationOfPresent ==
    /\ last.op = "get_location"
    /\ IsList(last.pre)
    /\ Matches(last.pre.recs, last.arg.epoch) # {}

\* C6: for every present state vector get_location returns a complete
\* location whatever the reverse geocoder does: a place, no coverage, or a
\* failure; the place description is the 'no data' sentinel in the last two
\* cases, and the geocoder's error reaches neither caller.
C6_GeocoderFailureDegrades ==
    /\ LocationOfPresent
       => /\ last.res.tag = "dict"
          /\ last.res.val # <<>>
          /\ last.arg.geo \in {"none", "raises"}
                => last.res.val[1].GEOPOSITION = NoGeoData
    /\ last.op = "get_now" => ~Raised(last.res, "GeocoderServiceError")

QueryOps ==
    {"index", "get_epochs", "get_state_vectors", "get_speed", "get_location",
     "get_now"}

\* C7: from a delete_data until the next post_data the store is the empty
\* list and every query answers with its empty result, raising nothing:
\* index the empty list, get_now, get_state_vectors, get_speed and
\* get_location the empty mapping for every epoch, get_epochs the empty
\* list for every integer offset and limit.
C7_ClearedStoreAnswersEmpty ==
    cleared
    => /\ iss_data = EmptyStore
       /\ last.op = "index" => last.res = RList(<<>>)
       /\ last.op \in {"get_now", "get_state_vectors", "get_speed", "get_location"}
             => last.res = REmpty
       /\ (last.op = "get_epochs" /\ PyInt(OffsetText).ok /\ PyInt(LimitText).ok)
             => last.res = RList(<<>>)

\* C7 witness: get_now answered the empty mapping after a delete_data
C7_Witness ==
    /\ cleared
    /\ last.op = "get_now"
    /\ last.pre = EmptyStore
    /\ last.res = REmpty

\* C9: no query changes the store: when index, get_epochs,
\* get_state_vectors, get_speed, get_location or get_now has been served,
\* every field of every record is what the request found.
C9_QueriesLeaveStore ==
    last.op \in QueryOps => iss_data = last.pre

\* get_state_vectors, get_speed or get_location was served on a list
LookupOnList ==
    /\ last.op \in {"get_state_vectors", "get_speed", "get_location"}
    /\ IsList(last.pre)

\* get_speed and get_location answer the empty mapping exactly when no
\* record carries the epoch, which is when get_state_vectors does
EmptyExactlyWhenAbsent ==
    LookupOnList
    => (last.res = REmpty <=> Matches(last.pre.recs, last.arg.epoch) = {})

\* the record get_state_vectors returned is record i of the store it found
\* (with its fields converted to numbers)
ReturnedRecordIs(i) ==
    /\ last.res.tag = "dict"
    /\ last.res.val = <<Normalise(last.pre.recs[i])>>

\* C10 as stated: get_state_vectors returns the first record in store order
\* whose epoch equals the argument, repeated epochs included, and the empty
\* mapping when there is none; get_speed and get_location are empty exactly
\* when it is.
C10_ReturnsFirstMatch ==
    /\ EmptyExactlyWhenAbsent
    /\ (/\ last.op = "get_state_vectors"
        /\ IsList(last.pre)
        /\ Matches(last.pre.recs, last.arg.epoch) # {})
       => ReturnedRecordIs(SetMin(Matches(last.pre.recs, last.arg.epoch)))

\* C10 amended: the record returned is the last one in store order whose
\* epoch equals the argument; the rest as stated.
C10_ReturnsLastMatch ==
    /\ EmptyExactlyWhenAbsent
    /\ (/\ last.op = "get_state_vectors"
        /\ IsList(last.pre)
        /\ Matches(last.pre.recs, last.arg.epoch) # {})
       => ReturnedRecordIs(SetMax(Matches(last.pre.recs, last.arg.epoch)))

\* C10 witness: two different records carry the epoch asked for, and the
\* later one came back
C10_Witness ==
    /\ last.op = "get_state_vectors"
    /\ IsList(last.pre)
    /\ \E i, j \in Matches(last.pre.recs, last.arg.epoch) :
          /\ i < j
          /\ last.pre.recs[i] # last.pre.recs[j]
          /\ j = SetMax(Matches(last.pre.recs, last.arg.epoch))
          /\ ReturnedRecordIs(j)

(***************************************************************************)
(* SpecLon: get_location as a function of the epoch's hour and minute       *)
(* fields and of the direction of the position.  The store is loaded with   *)
(* two records; the second has arbitrary two-character hour and minute      *)
(* fields and lies on an axis or a diagonal of the X-Y plane.               *)
(***************************************************************************)
TimeFieldChars == Digits \cup {"-"}

TimeFields == SeqsOfLen(TimeFieldChars, 2)

Directions ==
    {<<x, y>> : x \in {-6800, 0, 6800}, y \in {-6800, 0, 6800}} \ {<<0, 0>>}

InitLon ==
    /\ \E h \in TimeFields, m \in TimeFields, p \in Directions :
         iss_data = ListStore(
            <<StateVector(EpochA, 6800, 0, 0, 0, 7500, 0),
              StateVector(EpochStr(<<"0", "5", "8">>, h, m), p[1], p[2], 0,
                          0, 7500, 0)>>)
    /\ last = NoRequest
    /\ cleared = FALSE
    /\ workers = [w \in Workers |-> Idle]

\* get_location for the epoch of the second record
locate ==
    /\ last = NoRequest
    /\ \E g \in GeoOutcomes :
         LET e == iss_data.recs[2].EPOCH
             r == GetLocation(iss_data, e, g)
         IN  /\ iss_data' = r.data
             /\ last' = [op |-> "get_location", pre |-> iss_data,
                         arg |-> [NoArg EXCEPT !.epoch = e, !.geo = g],
                         res |-> r.res]
             /\ UNCHANGED <<cleared, workers>>

NextLon == locate

SpecLon == InitLon /\ [][NextLon]_vars

\* get_location returned a location
Located ==
    /\ last.op = "get_location"
    /\ last.res.tag = "dict"
    /\ last.res.val # <<>>

\* the record get_location worked on: the last one with the epoch
LocatedRecord ==
    last.pre.recs[SetMax(Matches(last.pre.recs, last.arg.epoch))]

LocatedHour == PyInt(Slice(LocatedRecord.EPOCH, 9, 11)).val

LocatedMinute == PyInt(Slice(LocatedRecord.EPOCH, 12, 14)).val

\* C8 as stated: the longitude get_location returns lies in [-180, 180]
\* degrees (720 quarter-degrees) for arbitrary hour and minute values read
\* from the two-character fields.
C8_LongitudeInRangeAlways ==
    Located => last.res.val[1].LONGITUDE \in -720..720

\* C8 amended: the longitude lies in [-180, 180] degrees whenever the hour
\* field reads 00-23 and the minute field 00-59.
C8_LongitudeInRangeForClockTimes ==
    (Located /\ LocatedHour \in 0..23 /\ LocatedMinute \in 0..59)
    => last.res.val[1].LONGITUDE \in -720..720

\* C8 witness: at 23:59 a raw longitude of -135 degrees gives -290.75
\* degrees before the wrap and 69.25 degrees after it
C8_Witness ==
    /\ Located
    /\ LocatedHour = 23 /\ LocatedMinute = 59
    /\ Atan2Q(LocatedRecord.Y.val, LocatedRecord.X.val) = -540
    /\ last.res.val[1].LONGITUDE = 277

(***************************************************************************)
(* SpecConc: two threads of the server run handlers at the same time.  A    *)
(* step of a thread is what it does with one reading or one assignment of   *)
(* the global iss_data; the steps of the two threads interleave freely.     *)
(* Only `iss_data` and `workers` change.                                    *)
(* `mid` of a reading thread records whether one of its readings found the  *)
(* document that another thread's post_data had assigned in line 220 and    *)
(* was about to replace in line 222.                                        *)
(***************************************************************************)
\* the inputs of the requests of SpecConc, a few of those of Spec
ConcParams == {Absent, Given(<<"1">>)}

ConcEpochs == {EpochA}

ConcNows == {EpochTime(EpochA).secs + 300}

\* the upstream outcomes, with the two-record lists of distinct epochs
ConcUpstream ==
    {u \in Upstream :
        u.out = "ok" =>
          /\ Len(u.recs) = 2
          /\ u.recs[1].EPOCH # u.recs[2].EPOCH}

InitConc ==
    /\ \E u \in ConcUpstream :
         /\ u.out = "ok"
         /\ iss_data = StateVectorPath(ParsedDocument(u))
    /\ last = NoRequest
    /\ cleared = FALSE
    /\ workers = [w \in Workers |-> Idle]

\* the global holds the document of a post_data of another thread that is
\* between its two assignments and will find its path
MidMutation(w) ==
    \E m \in Workers \ {w} :
       /\ workers[m].pc = "post_222"
       /\ iss_data = ParsedDocument(workers[m].up)
       /\ HasPath(iss_data)

Reads(w, loc) == [loc EXCEPT !.mid = loc.mid \/ MidMutation(w)]

Done(loc, res) == [loc EXCEPT !.pc = "done", !.res = res]

Step(w, loc) ==
    /\ workers' = [workers EXCEPT ![w] = loc]
    /\ UNCHANGED <<last, cleared>>

Begin(w, op) == [Idle EXCEPT !.op = op]

c_index(w) ==
    /\ workers[w].pc = "idle"
    /\ Step(w, Done(Reads(w, Begin(w, "index")), Index(iss_data)))
    /\ UNCHANGED iss_data

\* lines 44-55: the default limit reads len(iss_data)
c_get_epochs_45(w) ==
    /\ workers[w].pc = "idle"
    /\ \E o \in ConcParams, l \in ConcParams :
         LET loc == [Reads(w, Begin(w, "get_epochs")) EXCEPT
                        !.offset = o, !.limit = l, !.len = PyLen(iss_data)]
             offset == ParseParam(ArgsGet(o, PyStr(0)))
             limit == ParseParam(ArgsGet(l, PyStr(PyLen(iss_data))))
         IN  Step(w, IF offset.bad THEN Done(loc, RStr(BadOffset))
                     ELSE IF limit.bad THEN Done(loc, RStr(BadLimit))
                     ELSE [loc EXCEPT !.pc = "epochs_59"])
    /\ UNCHANGED iss_data

\* lines 56-66: the loop reads iss_data
c_get_epochs_59(w) ==
    /\ workers[w].pc = "epochs_59"
    /\ LET loc == workers[w]
           offset == ParseParam(ArgsGet(loc.offset, PyStr(0)))
           limit == ParseParam(ArgsGet(loc.limit, PyStr(loc.len)))
       IN  Step(w, Done(Reads(w, loc),
                        EpochsLoop(iss_data, offset, limit, 1, 0, <<>>)))
    /\ UNCHANGED iss_data

c_get_state_vectors(w) ==
    /\ workers[w].pc = "idle"
    /\ \E e \in ConcEpochs :
         LET r == GetStateVectors(iss_data, e)
         IN  /\ iss_data' = r.data
             /\ Step(w, Done(Reads(w, Begin(w, "get_state_vectors")), r.res))

c_get_speed(w) ==
    /\ workers[w].pc = "idle"
    /\ \E e \in ConcEpochs :
         LET r == GetSpeed(iss_data, e)
         IN  /\ iss_data' = r.data
             /\ Step(w, Done(Reads(w, Begin(w, "get_speed")), r.res))

c_get_location(w) ==
    /\ workers[w].pc = "idle"
    /\ \E e \in ConcEpochs, g \in GeoOutcomes :
         LET r == GetLocation(iss_data, e, g)
         IN  /\ iss_data' = r.data
             /\ Step(w, Done(Reads(w, Begin(w, "get_location")), r.res))

\* lines 155-157
c_get_now_156(w) ==
    /\ workers[w].pc = "idle"
    /\ LET loc == Reads(w, Begin(w, "get_now"))
       IN  Step(w, IF NowIsEmpty(iss_data) THEN Done(loc, REmpty)
                   ELSE [loc EXCEPT !.pc = "now_158"])
    /\ UNCHANGED iss_data

\* lines 158-159
c_get_now_158(w) ==
    /\ workers[w].pc = "now_158"
    /\ \E t \in ConcNows :
         LET loc == Reads(w, workers[w])
             first == NowFirst(iss_data, t)
         IN  Step(w, IF first.res.tag = "raise" THEN Done(loc, first.res)
                     ELSE [loc EXCEPT !.pc = "now_160", !.t0 = t,
                                      !.min_difference = first.min_difference])
    /\ UNCHANGED iss_data

\* lines 160-171
c_get_now_160(w) ==
    /\ workers[w].pc = "now_160"
    /\ \E k \in TickSeqs(IF IsList(iss_data) THEN Len(iss_data.recs) ELSE 0) :
         LET loc == Reads(w, workers[w])
             scan == NowLoop(iss_data, loc.t0, k, loc.min_difference)
         IN  Step(w, IF scan.res.tag = "raise" THEN Done(loc, scan.res)
                     ELSE IF scan.min_state_vector = <<>>
                     THEN Done(loc, Raise("UnboundLocalError"))
                     ELSE [loc EXCEPT !.pc = "now_172",
                                      !.min_difference = scan.min_difference,
                                      !.epoch = scan.min_state_vector[1].EPOCH])
    /\ UNCHANGED iss_data

\* line 172
c_get_now_172(w) ==
    /\ workers[w].pc = "now_172"
    /\ \E g \in GeoOutcomes :
         LET loc == Reads(w, workers[w])
             r == GetLocation(iss_data, loc.epoch, g)
         IN  /\ iss_data' = r.data
             /\ Step(w, IF r.res.tag = "raise" THEN Done(loc, r.res)
                        ELSE [loc EXCEPT !.pc = "now_173",
                                         !.location = r.res.val])

\* lines 173-174
c_get_now_173(w) ==
    /\ workers[w].pc = "now_173"
    /\ LET loc == Reads(w, workers[w])
           r == GetSpeed(iss_data, loc.epoch)
       IN  /\ iss_data' = r.data
           /\ Step(w, IF r.res.tag = "raise" THEN Done(loc, r.res)
                      ELSE Done(loc, RDict([closest_epoch |-> loc.epoch,
                                            time_difference |-> loc.min_difference,
                                            location |-> loc.location,
                                            speed |-> r.res.val])))

c_delete_data(w) ==
    /\ workers[w].pc = "idle"
    /\ iss_data' = EmptyStore
    /\ Step(w, Done(Begin(w, "delete_data"), RStr(Deleted)))

\* line 218, and the parse of line 220
c_post_data_218(w) ==
    /\ workers[w].pc = "idle"
    /\ \E u \in ConcUpstream :
         Step(w, IF FetchFails(u)
                 THEN Done([Begin(w, "post_data") EXCEPT !.up = u], FetchError(u))
                 ELSE [Begin(w, "post_data") EXCEPT !.pc = "post_220", !.up = u])
    /\ UNCHANGED iss_data

\* the assignment of line 220
c_post_data_220(w) ==
    /\ workers[w].pc = "post_220"
    /\ iss_data' = ParsedDocument(workers[w].up)
    /\ Step(w, [workers[w] EXCEPT !.pc = "post_222"])

\* line 222
c_post_data_222(w) ==
    /\ workers[w].pc = "post_222"
    /\ LET r == PostPath(iss_data)
       IN  /\ iss_data' = r.data
           /\ Step(w, Done(workers[w], r.res))

c_respond(w) ==
    /\ workers[w].pc = "done"
    /\ Step(w, Idle)
    /\ UNCHANGED iss_data

NextConc ==
    \E w \in Workers :
       \/ c_index(w)
       \/ c_get_epochs_45(w)
       \/ c_get_epochs_59(w)
       \/ c_get_state_vectors(w)
       \/ c_get_speed(w)
       \/ c_get_location(w)
       \/ c_get_now_156(w)
       \/ c_get_now_158(w)
       \/ c_get_now_160(w)
       \/ c_get_now_172(w)
       \/ c_get_now_173(w)
       \/ c_delete_data(w)
       \/ c_post_data_218(w)
       \/ c_post_data_220(w)
       \/ c_post_data_222(w)
       \/ c_respond(w)

SpecConc == InitConc /\ [][NextConc]_vars

ReadOps == {"index", "get_epochs", "get_state_vectors", "get_now"}

\* C2: with a post_data or delete_data running at the same time as an
\* index, get_epochs, get_state_vectors or get_now, every value of the
\* store that the reader finds is the complete list from before the
\* mutation or the complete list from after it, never the value in between,
\* and no reader fails because the store changed between two of its steps
\* (get_now's iss_data[0] after its length check).
C2_NoTornRead ==
    \A w \in Workers :
       workers[w].op \in ReadOps
       => /\ ~workers[w].mid
          /\ ~Raised(workers[w].res, "IndexError")

====
